---- MODULE Spec2Model ----
(***************************************************************************)
(* Rusty-Path-Planning (src/src/main.rs): a rectangular grid graph is      *)
(* built by make_graph, searched by find_path (petgraph's astar with the   *)
(* heuristic of Coordinate2D::distance) and flattened by graph_to_json and *)
(* graph_to_svg.  main runs them in that order on one Config.              *)
(*                                                                         *)
(* Node handles are petgraph's NodeIndex values 0, 1, 2, ...; the weight   *)
(* of node i is g.nodes[i + 1].  An Option is a sequence: <<>> is None and *)
(* <<v>> is Some(v).  Coordinates and dimensions are i16; an arithmetic    *)
(* overflow panics when the build checks overflow (the debug profile) and  *)
(* wraps when it does not (the release profile).                           *)
(***************************************************************************)
EXTENDS Integers, Sequences, FiniteSets, Bags, TLC

VARIABLES config, overflow_checks, pc, g, mg, astar_st, path, bfs, acc, json, svg

vars == <<config, overflow_checks, pc, g, mg, astar_st, path, bfs, acc, json, svg>>

(* Bounds of the enumerated grids: width in 0..MaxW, height in 0..MaxH, at
   most MaxCells cells. *)
MaxW == 3
MaxH == 3
MaxCells == 9

(* i16, the type of Coordinate2D's fields and of Config's dimensions. *)
I16Min == -32768
I16Max == 32767

None == <<>>
Some(v) == <<v>>
IsSome(o) == o /= <<>>
Unwrap(o) == o[1]

Coordinate2D(x, y) == [x |-> x, y |-> y]

Abs(v) == IF v < 0 THEN -v ELSE v

InI16(v) == I16Min <= v /\ v <= I16Max

(* Two's-complement wrap of an exact result to 16 bits. *)
Wrap16(v) == ((v - I16Min) % 65536) + I16Min

(* f32 sqrt followed by floor, on the integers an i16 can hold (exact there). *)
ISqrt(n) == CHOOSE r \in 0..181 : r * r <= n /\ n < (r + 1) * (r + 1)

(***************************************************************************)
(* Coordinate2D::distance(self, other), as written:                        *)
(*   (((self.y - other.y).pow(2) + (self.x - self.y).pow(2)) as f32).sqrt()*)
(* The second term reads self.y, not other.x.                              *)
(***************************************************************************)
DistanceOverflows(self, other) ==
    \/ ~InI16(self.y - other.y)
    \/ ~InI16((self.y - other.y) * (self.y - other.y))
    \/ ~InI16(self.x - self.y)
    \/ ~InI16((self.x - self.y) * (self.x - self.y))
    \/ ~InI16((self.y - other.y) * (self.y - other.y)
              + (self.x - self.y) * (self.x - self.y))

DistanceRadicand(self, other) ==
    LET dy  == Wrap16(self.y - other.y)
        dy2 == Wrap16(dy * dy)
        dx  == Wrap16(self.x - self.y)
        dx2 == Wrap16(dx * dx)
    IN  Wrap16(dy2 + dx2)

(* end.distance(g[x]).floor() as i32: the sqrt of a negative number is NaN,
   which floors to NaN and casts to 0. *)
DistanceFloor(self, other) ==
    LET s == DistanceRadicand(self, other)
    IN  IF s < 0 THEN 0 ELSE ISqrt(s)

(***************************************************************************)
(* petgraph's Graph<Coordinate2D, i32, Undirected, u32>.                   *)
(***************************************************************************)
EmptyGraph == [nodes |-> <<>>, edges |-> <<>>]

NodeCount(gr) == Len(gr.nodes)

NodeIndices(gr) == [i \in 1..Len(gr.nodes) |-> i - 1]

Weight(gr, n) == gr.nodes[n + 1]

AddNode(gr, w) == [gr EXCEPT !.nodes = Append(@, w)]

AddEdge(gr, a, b, w) == [gr EXCEPT !.edges = Append(@, [a |-> a, b |-> b, w |-> w])]

Reverse(s) == [i \in 1..Len(s) |-> s[Len(s) + 1 - i]]

Leaves(e, n) == e.a = n

Enters(e, n) == e.b = n /\ e.a /= n

(* graph.edges(n) of an undirected graph: the adjacency list of the edges
   added with n first, newest first, then that of the edges added with n
   second, newest first; each with the node at its far end. *)
Edges(gr, n) ==
    LET out == Reverse(SelectSeq(gr.edges, LAMBDA e : Leaves(e, n)))
        inc == Reverse(SelectSeq(gr.edges, LAMBDA e : Enters(e, n)))
    IN  [i \in 1..Len(out) |-> [edge |-> out[i], source |-> n, target |-> out[i].b]]
        \o [i \in 1..Len(inc) |-> [edge |-> inc[i], source |-> n, target |-> inc[i].a]]

(* graph.neighbors(n): the far ends, in the same order. *)
Neighbors(gr, n) ==
    LET es == Edges(gr, n) IN [i \in 1..Len(es) |-> es[i].target]

(***************************************************************************)
(* make_graph                                                              *)
(***************************************************************************)

(* Lines 106-107: the i16 product and its doubling. *)
MakeGraphOverflows(cfg) ==
    \/ ~InI16(cfg.height * cfg.width)
    \/ ~InI16(cfg.height * cfg.width * 2)

(* Lines 107-108: the casts to usize that size the graph's vectors and
   last_node_line.  A negative i16 cast to usize is above isize::MAX, and
   the allocation panics with capacity overflow. *)
MakeGraphCapacityOverflow(cfg) ==
    LET node_count == Wrap16(cfg.height * cfg.width)
    IN  \/ node_count < 0
        \/ Wrap16(node_count * 2) < 0
        \/ cfg.width < 0

MakeGraphPanics(cfg, checks) ==
    \/ checks /\ MakeGraphOverflows(cfg)
    \/ MakeGraphCapacityOverflow(cfg)

(* Lines 117-119: the edge to the node above, when the previous row left one. *)
LinkAbove(gr, current_node, above) ==
    IF IsSome(above) THEN AddEdge(gr, current_node, Unwrap(above), 1) ELSE gr

(* LinkLeft without its edge: a builder that forgets the left neighbour. *)
LinkLeftDropped(gr, current_node, last_node) == gr

(* Lines 120-122: the edge to the node on the left, when there is one. *)
LinkLeft(gr, current_node, last_node) ==
    IF IsSome(last_node) THEN AddEdge(gr, current_node, Unwrap(last_node), 1) ELSE gr

(* make_graph's locals. *)
MakeGraphIdle == [x |-> 0, y |-> 0, last_node |-> None, last_node_line |-> <<>>]

MakeGraphLocals(cfg) ==
    [x |-> 0, y |-> 0, last_node |-> None,
     last_node_line |-> [i \in 1..cfg.width |-> None]]

(***************************************************************************)
(* find_path and petgraph::algo::astar                                     *)
(*                                                                         *)
(* astar keeps a visit map: a node is expanded the first time it is        *)
(* popped, later pops of it are dropped, and an edge to a visited node is  *)
(* skipped.  A neighbour reached again without a better score is pushed    *)
(* again with its old score.                                               *)
(***************************************************************************)

(* Line 211: g.node_indices().find(|x| g[*x] == start), the first match. *)
FindStart(gr, start) ==
    LET hits == {n \in 0..(NodeCount(gr) - 1) : Weight(gr, n) = start}
    IN  IF hits = {} THEN None
        ELSE Some(CHOOSE n \in hits : \A m \in hits : n <= m)

(* Line 215: the goal test. *)
IsGoal(gr, end, x) == Weight(gr, x) = end

(* EdgeCost with another constant: a search that charges two per hop. *)
EdgeCostTwo(e) == 2

(* Line 216: the edge cost closure ignores the edge. *)
EdgeCost(e) == 1

(* Line 217: the estimate is measured from the goal, with the node's
   coordinate as the argument. *)
EstimateOverflows(gr, end, x) == DistanceOverflows(end, Weight(gr, x))

EstimateCost(gr, end, x) == DistanceFloor(end, Weight(gr, x))

(* astar's locals: the heap visit_next of (estimate, node) pairs, the visit
   map, the scores and the path tracker's came_from; and, once the goal is
   popped, reconstruct_path_to's path and current. *)
AstarIdle ==
    [visit_next |-> EmptyBag, visited |-> {}, scores |-> <<>>, came_from |-> <<>>,
     path |-> <<>>, current |-> None]

AstarStart(gr, end, start_index) ==
    [visit_next |-> SetToBag({<<EstimateCost(gr, end, start_index), start_index>>}),
     visited    |-> {},
     scores     |-> (start_index :> 0),
     came_from  |-> <<>>,
     path       |-> <<>>,
     current    |-> None]

(* The entries BinaryHeap::pop may return: MinScored orders by the score
   alone, so any entry of least score. *)
PopChoices(st) ==
    LET entries == BagToSet(st.visit_next)
    IN  {e \in entries : \A f \in entries : e[1] <= f[1]}

RECURSIVE ExpandEdges(_, _, _, _, _)
(* The loop over graph.edges(node) of a node just marked visited; es holds
   the edges still to come. *)
ExpandEdges(gr, end, st, es, node_score) ==
    IF es = <<>> THEN st
    ELSE LET next == Head(es).target
             rest == Tail(es)
         IN  IF next \in st.visited THEN ExpandEdges(gr, end, st, rest, node_score)
             ELSE LET cand == node_score + EdgeCost(Head(es).edge)
                      known == next \in DOMAIN st.scores
                      better == ~known \/ cand < st.scores[next]
                      next_score == IF better THEN cand ELSE st.scores[next]
                      st1 == [st EXCEPT
                                !.scores = IF better THEN (next :> cand) @@ @ ELSE @,
                                !.came_from = IF better THEN (next :> Head(es).source) @@ @ ELSE @,
                                !.visit_next = @ (+) SetToBag(
                                    {<<next_score + EstimateCost(gr, end, next), next>>})]
                  IN  ExpandEdges(gr, end, st1, rest, node_score)

(* Whether expanding node evaluates the estimate on a coordinate that
   overflows it. *)
ExpandOverflows(gr, end, st, node) ==
    LET es == Edges(gr, node)
    IN  \E i \in 1..Len(es) :
            /\ es[i].target \notin (st.visited \cup {node})
            /\ EstimateOverflows(gr, end, es[i].target)

(* PathTracker::reconstruct_path_to(last): path = vec![last], current = last. *)
PathFrom(st, last) == [st EXCEPT !.path = <<last>>, !.current = Some(last)]

(* One turn of its loop: the predecessor of current is pushed and becomes
   current. *)
PathPush(st) ==
    LET previous == st.came_from[Unwrap(st.current)]
    IN  [st EXCEPT !.path = Append(@, previous), !.current = Some(previous)]

(* The result: the cost is the score of the goal node, the nodes are the
   path reversed. *)
AstarResult(st) == [cost |-> st.scores[st.path[1]], nodes |-> Reverse(st.path)]

(***************************************************************************)
(* graph_to_json and graph_to_svg                                          *)
(***************************************************************************)

(* petgraph's Bfs: the queue and the discovered map. *)
BfsIdle == [stack |-> <<>>, discovered |-> {}]

(* Bfs::new(&g, start) *)
BfsNew(start) == [stack |-> <<start>>, discovered |-> {start}]

RECURSIVE Discover(_, _, _)
(* Bfs::next's loop over graph.neighbors(node): each successor not yet
   discovered is marked and pushed at the back. *)
Discover(b, succs, i) ==
    IF i > Len(succs) THEN b
    ELSE IF succs[i] \in b.discovered THEN Discover(b, succs, i + 1)
    ELSE Discover([stack |-> Append(b.stack, succs[i]),
                   discovered |-> b.discovered \cup {succs[i]}], succs, i + 1)

(* Bfs::next on a queue that is not empty: the front node is taken. *)
BfsNext(gr, b) ==
    Discover([b EXCEPT !.stack = Tail(@)], Neighbors(gr, Head(b.stack)), 1)

Contains(s, v) == \E i \in 1..Len(s) : s[i] = v

(* EdgeSeen looking for the pair as it is about to be pushed, not reversed. *)
EdgeSeenSameOrder(edges, coord, ncoord) == Contains(edges, <<coord, ncoord>>)

(* Line 186: the pair is skipped when its reverse is already in the list. *)
EdgeSeen(edges, coord, ncoord) == Contains(edges, <<ncoord, coord>>)

RECURSIVE JsonNeighbors(_, _, _, _, _)
(* Lines 183-189: the pairs one visited node adds. *)
JsonNeighbors(gr, edges, nx, nbrs, i) ==
    IF i > Len(nbrs) THEN edges
    ELSE LET coord == Weight(gr, nx)
             ncoord == Weight(gr, nbrs[i])
         IN  JsonNeighbors(gr,
                           IF ~EdgeSeen(edges, coord, ncoord)
                           THEN Append(edges, <<coord, ncoord>>) ELSE edges,
                           nx, nbrs, i + 1)

(* Line 179: the node list is the weights in node index order. *)
JsonNodes(gr) == [i \in 1..NodeCount(gr) |-> Weight(gr, NodeIndices(gr)[i])]

(* Line 195: the path as coordinates. *)
JsonPath(gr, p) ==
    IF IsSome(p)
    THEN Some([i \in 1..Len(Unwrap(p).nodes) |-> Weight(gr, Unwrap(p).nodes[i])])
    ELSE None

(* Line 156: an edge is drawn as on the path when both ends are in it. *)
OnPath(p, nx, neighbor) ==
    /\ IsSome(p)
    /\ Contains(Unwrap(p).nodes, neighbor)
    /\ Contains(Unwrap(p).nodes, nx)

(* Lines 165-171: the circle of a node. *)
CircleKind(coord, start, goal) ==
    IF coord = start THEN "start" ELSE IF coord = goal THEN "goal" ELSE "node"

RECURSIVE SvgNode(_, _, _, _, _, _)
(* Lines 151-171: a line per neighbour, then the node's circle (the pixel
   positions, which scale decides, are left to the markup). *)
SvgNode(gr, cfg, p, out, nx, i) ==
    LET nbrs == Neighbors(gr, nx)
    IN  IF i > Len(nbrs)
        THEN Append(out, [shape |-> "circle", at |-> Weight(gr, nx),
                          kind |-> CircleKind(Weight(gr, nx), cfg.start, cfg.goal)])
        ELSE SvgNode(gr, cfg, p,
                     Append(out, [shape |-> "line", from |-> Weight(gr, nx),
                                  to |-> Weight(gr, nbrs[i]),
                                  on_path |-> OnPath(p, nx, nbrs[i])]),
                     nx, i + 1)

(* The lists a flattener is filling: graph_to_json's nodes and edges,
   graph_to_svg's out. *)
AccIdle == [nodes |-> <<>>, edges |-> <<>>, out |-> <<>>]

(***************************************************************************)
(* main: the Config read from the input, then make_graph, find_path and    *)
(* the outputs asked for (--json, --svg, at least one of them).            *)
(***************************************************************************)

Coords == {Coordinate2D(x, y) : x \in 0..(MaxW - 1), y \in 0..(MaxH - 1)}

Origin == Coordinate2D(0, 0)

(* The enumerated grids; a start or goal is off every grid smaller than
   MaxW x MaxH that does not hold it. *)
SmallConfigs ==
    {c \in [width : 0..MaxW, height : 0..MaxH, start : Coords, goal : Coords] :
        c.width * c.height <= MaxCells}

(* Inputs beyond the enumerated grids: negative dimensions, a grid whose
   cell count does not fit an i16, a grid one cell high and long enough for
   the squares of distance to leave i16, and start and goal coordinates off
   the grid on either side. *)
ExtraConfigs ==
    { [width |-> -1, height |-> 1, start |-> Origin, goal |-> Origin],
      [width |-> 1, height |-> -1, start |-> Origin, goal |-> Origin],
      [width |-> -1, height |-> -1, start |-> Origin, goal |-> Origin],
      [width |-> -1, height |-> 0, start |-> Origin, goal |-> Origin],
      [width |-> 0, height |-> -1, start |-> Origin, goal |-> Origin],
      [width |-> 128, height |-> 128, start |-> Origin, goal |-> Origin],
      [width |-> 183, height |-> 1, start |-> Origin, goal |-> Coordinate2D(182, 0)],
      [width |-> 1, height |-> 1, start |-> Origin, goal |-> Coordinate2D(200, 0)],
      [width |-> 1, height |-> 4, start |-> Origin, goal |-> Coordinate2D(181, 0)],
      [width |-> 2, height |-> 2, start |-> Origin, goal |-> Coordinate2D(-1, 0)],
      [width |-> 2, height |-> 2, start |-> Coordinate2D(0, -1), goal |-> Origin] }

Configs == SmallConfigs \cup ExtraConfigs

Init ==
    /\ config \in Configs
    /\ overflow_checks \in BOOLEAN
    /\ pc = "make_graph"
    /\ g = EmptyGraph
    /\ mg = MakeGraphIdle
    /\ astar_st = AstarIdle
    /\ path = None
    /\ bfs = BfsIdle
    /\ acc = AccIdle
    /\ json = None
    /\ svg = None

(* Lines 104-108, when the product or the sizing of the vectors panics. *)
MakeGraphPanic ==
    /\ pc = "make_graph"
    /\ MakeGraphPanics(config, overflow_checks)
    /\ pc' = "panic_make_graph"
    /\ UNCHANGED <<config, overflow_checks, g, mg, astar_st, path, bfs, acc, json, svg>>

(* Lines 104-110 *)
MakeGraphEnter ==
    /\ pc = "make_graph"
    /\ ~MakeGraphPanics(config, overflow_checks)
    /\ mg' = MakeGraphLocals(config)
    /\ pc' = "make_graph_loop"
    /\ UNCHANGED <<config, overflow_checks, g, astar_st, path, bfs, acc, json, svg>>

(* Lines 114-126: one cell of the row. *)
MakeGraphCell ==
    /\ pc = "make_graph_loop"
    /\ mg.y < config.height
    /\ mg.x < config.width
    /\ LET current_node == NodeCount(g)
           g1 == AddNode(g, Coordinate2D(mg.x, mg.y))
           g2 == LinkAbove(g1, current_node, mg.last_node_line[mg.x + 1])
       IN  /\ g' = LinkLeft(g2, current_node, mg.last_node)
           /\ mg' = [mg EXCEPT !.last_node = Some(current_node),
                               !.last_node_line[mg.x + 1] = Some(current_node),
                               !.x = @ + 1]
    /\ UNCHANGED <<config, overflow_checks, pc, astar_st, path, bfs, acc, json, svg>>

(* Lines 111-114, 127: the row is done; the next one starts at x = 0 with
   no node on the left. *)
MakeGraphNextRow ==
    /\ pc = "make_graph_loop"
    /\ mg.y < config.height
    /\ ~(mg.x < config.width)
    /\ mg' = [mg EXCEPT !.y = @ + 1, !.x = 0, !.last_node = None]
    /\ UNCHANGED <<config, overflow_checks, pc, g, astar_st, path, bfs, acc, json, svg>>

(* Lines 111, 130 *)
MakeGraphReturn ==
    /\ pc = "make_graph_loop"
    /\ ~(mg.y < config.height)
    /\ mg' = MakeGraphIdle
    /\ pc' = "find_path"
    /\ UNCHANGED <<config, overflow_checks, g, astar_st, path, bfs, acc, json, svg>>

(* Lines 211, 220: no node carries the start coordinate. *)
FindPathNoStart ==
    /\ pc = "find_path"
    /\ FindStart(g, config.start) = None
    /\ path' = None
    /\ pc' = "graph_to_json"
    /\ UNCHANGED <<config, overflow_checks, g, mg, astar_st, bfs, acc, json, svg>>

(* Lines 211-218: astar begins by pushing the start node with its estimate,
   which overflows in a build that checks. *)
FindPathPanic ==
    /\ pc = "find_path"
    /\ IsSome(FindStart(g, config.start))
    /\ overflow_checks
    /\ EstimateOverflows(g, config.goal, Unwrap(FindStart(g, config.start)))
    /\ pc' = "panic_distance"
    /\ UNCHANGED <<config, overflow_checks, g, mg, astar_st, path, bfs, acc, json, svg>>

(* Lines 211-218 *)
FindPathSearch ==
    /\ pc = "find_path"
    /\ IsSome(FindStart(g, config.start))
    /\ ~(overflow_checks
         /\ EstimateOverflows(g, config.goal, Unwrap(FindStart(g, config.start))))
    /\ astar_st' = AstarStart(g, config.goal, Unwrap(FindStart(g, config.start)))
    /\ pc' = "astar"
    /\ UNCHANGED <<config, overflow_checks, g, mg, path, bfs, acc, json, svg>>

(* astar: the heap is empty, no path. *)
AstarExhausted ==
    /\ pc = "astar"
    /\ astar_st.visit_next = EmptyBag
    /\ path' = None
    /\ astar_st' = AstarIdle
    /\ pc' = "graph_to_json"
    /\ UNCHANGED <<config, overflow_checks, g, mg, bfs, acc, json, svg>>

(* astar: the popped node is the goal; its path is reconstructed. *)
AstarGoal ==
    /\ pc = "astar"
    /\ \E e \in PopChoices(astar_st) :
        /\ IsGoal(g, config.goal, e[2])
        /\ astar_st' = PathFrom(astar_st, e[2])
    /\ pc' = "astar_path"
    /\ UNCHANGED <<config, overflow_checks, g, mg, path, bfs, acc, json, svg>>

(* reconstruct_path_to: current has a predecessor. *)
AstarPathStep ==
    /\ pc = "astar_path"
    /\ Unwrap(astar_st.current) \in DOMAIN astar_st.came_from
    /\ astar_st' = PathPush(astar_st)
    /\ UNCHANGED <<config, overflow_checks, pc, g, mg, path, bfs, acc, json, svg>>

(* reconstruct_path_to: current has none; astar returns Some((cost, path)). *)
AstarReturn ==
    /\ pc = "astar_path"
    /\ Unwrap(astar_st.current) \notin DOMAIN astar_st.came_from
    /\ path' = Some(AstarResult(astar_st))
    /\ astar_st' = AstarIdle
    /\ pc' = "graph_to_json"
    /\ UNCHANGED <<config, overflow_checks, g, mg, bfs, acc, json, svg>>

(* astar: the popped node was visited before. *)
AstarRevisit ==
    /\ pc = "astar"
    /\ \E e \in PopChoices(astar_st) :
        /\ ~IsGoal(g, config.goal, e[2])
        /\ e[2] \in astar_st.visited
        /\ astar_st' = [astar_st EXCEPT !.visit_next = @ (-) SetToBag({e})]
    /\ UNCHANGED <<config, overflow_checks, pc, g, mg, path, bfs, acc, json, svg>>

(* astar: the popped node is visited and its edges are followed. *)
AstarExpand ==
    /\ pc = "astar"
    /\ \E e \in PopChoices(astar_st) :
        /\ ~IsGoal(g, config.goal, e[2])
        /\ e[2] \notin astar_st.visited
        /\ ~(overflow_checks /\ ExpandOverflows(g, config.goal, astar_st, e[2]))
        /\ astar_st' = ExpandEdges(g, config.goal,
                                   [astar_st EXCEPT !.visit_next = @ (-) SetToBag({e}),
                                                    !.visited = @ \cup {e[2]}],
                                   Edges(g, e[2]), astar_st.scores[e[2]])
    /\ UNCHANGED <<config, overflow_checks, pc, g, mg, path, bfs, acc, json, svg>>

(* astar: the estimate of a neighbour overflows in a build that checks. *)
AstarPanic ==
    /\ pc = "astar"
    /\ \E e \in PopChoices(astar_st) :
        /\ ~IsGoal(g, config.goal, e[2])
        /\ e[2] \notin astar_st.visited
        /\ overflow_checks
        /\ ExpandOverflows(g, config.goal, astar_st, e[2])
    /\ pc' = "panic_distance"
    /\ UNCHANGED <<config, overflow_checks, g, mg, astar_st, path, bfs, acc, json, svg>>

(* Line 180: g.node_indices().next().unwrap() on a graph without nodes. *)
GraphToJsonPanic ==
    /\ pc = "graph_to_json"
    /\ NodeIndices(g) = <<>>
    /\ pc' = "panic_graph_to_json"
    /\ UNCHANGED <<config, overflow_checks, g, mg, astar_st, path, bfs, acc, json, svg>>

(* Lines 179-181 *)
GraphToJsonEnter ==
    /\ pc = "graph_to_json"
    /\ NodeIndices(g) /= <<>>
    /\ acc' = [AccIdle EXCEPT !.nodes = JsonNodes(g)]
    /\ bfs' = BfsNew(NodeIndices(g)[1])
    /\ pc' = "graph_to_json_loop"
    /\ UNCHANGED <<config, overflow_checks, g, mg, astar_st, path, json, svg>>

(* Lines 182-190: one node of the traversal. *)
GraphToJsonVisit ==
    /\ pc = "graph_to_json_loop"
    /\ bfs.stack /= <<>>
    /\ bfs' = BfsNext(g, bfs)
    /\ acc' = [acc EXCEPT !.edges = JsonNeighbors(g, @, Head(bfs.stack),
                                                  Neighbors(g, Head(bfs.stack)), 1)]
    /\ UNCHANGED <<config, overflow_checks, pc, g, mg, astar_st, path, json, svg>>

(* Lines 191-203 *)
GraphToJsonReturn ==
    /\ pc = "graph_to_json_loop"
    /\ bfs.stack = <<>>
    /\ json' = Some([nodes |-> acc.nodes, edges |-> acc.edges, path |-> JsonPath(g, path)])
    /\ bfs' = BfsIdle
    /\ acc' = AccIdle
    /\ pc' = "graph_to_svg"
    /\ UNCHANGED <<config, overflow_checks, g, mg, astar_st, path, svg>>

(* Line 58: no --json. *)
SkipJson ==
    /\ pc = "graph_to_json"
    /\ pc' = "graph_to_svg"
    /\ UNCHANGED <<config, overflow_checks, g, mg, astar_st, path, bfs, acc, json, svg>>

(* Line 146: the same unwrap. *)
GraphToSvgPanic ==
    /\ pc = "graph_to_svg"
    /\ NodeIndices(g) = <<>>
    /\ pc' = "panic_graph_to_svg"
    /\ UNCHANGED <<config, overflow_checks, g, mg, astar_st, path, bfs, acc, json, svg>>

(* Lines 141-146 *)
GraphToSvgEnter ==
    /\ pc = "graph_to_svg"
    /\ NodeIndices(g) /= <<>>
    /\ acc' = AccIdle
    /\ bfs' = BfsNew(NodeIndices(g)[1])
    /\ pc' = "graph_to_svg_loop"
    /\ UNCHANGED <<config, overflow_checks, g, mg, astar_st, path, json, svg>>

(* Lines 150-172: one node of the traversal. *)
GraphToSvgVisit ==
    /\ pc = "graph_to_svg_loop"
    /\ bfs.stack /= <<>>
    /\ bfs' = BfsNext(g, bfs)
    /\ acc' = [acc EXCEPT !.out = SvgNode(g, config, path, @, Head(bfs.stack), 1)]
    /\ UNCHANGED <<config, overflow_checks, pc, g, mg, astar_st, path, json, svg>>

(* Lines 173-175 *)
GraphToSvgReturn ==
    /\ pc = "graph_to_svg_loop"
    /\ bfs.stack = <<>>
    /\ svg' = Some(acc.out)
    /\ bfs' = BfsIdle
    /\ acc' = AccIdle
    /\ pc' = "done"
    /\ UNCHANGED <<config, overflow_checks, g, mg, astar_st, path, json>>

(* Line 63: no --svg, which the arguments allow only beside --json. *)
SkipSvg ==
    /\ pc = "graph_to_svg"
    /\ IsSome(json)
    /\ pc' = "done"
    /\ UNCHANGED <<config, overflow_checks, g, mg, astar_st, path, bfs, acc, json, svg>>

Next ==
    \/ MakeGraphPanic
    \/ MakeGraphEnter
    \/ MakeGraphCell
    \/ MakeGraphNextRow
    \/ MakeGraphReturn
    \/ FindPathNoStart
    \/ FindPathPanic
    \/ FindPathSearch
    \/ AstarExhausted
    \/ AstarGoal
    \/ AstarPathStep
    \/ AstarReturn
    \/ AstarRevisit
    \/ AstarExpand
    \/ AstarPanic
    \/ GraphToJsonPanic
    \/ GraphToJsonEnter
    \/ GraphToJsonVisit
    \/ GraphToJsonReturn
    \/ SkipJson
    \/ GraphToSvgPanic
    \/ GraphToSvgEnter
    \/ GraphToSvgVisit
    \/ GraphToSvgReturn
    \/ SkipSvg

Spec == Init /\ [][Next]_vars

(***************************************************************************)
(* Properties                                                              *)
(***************************************************************************)

InBounds(c, cfg) == 0 <= c.x /\ c.x < cfg.width /\ 0 <= c.y /\ c.y < cfg.height

Manhattan(a, b) == Abs(a.x - b.x) + Abs(a.y - b.y)

(* make_graph has returned its graph. *)
Built == pc \notin {"make_graph", "make_graph_loop", "panic_make_graph"}

(* find_path has returned; path holds its result. *)
FindPathReturned ==
    pc \in {"graph_to_json", "graph_to_json_loop", "graph_to_svg", "graph_to_svg_loop",
            "done", "panic_graph_to_json", "panic_graph_to_svg"}

Panicked ==
    pc \in {"panic_make_graph", "panic_distance", "panic_graph_to_json",
            "panic_graph_to_svg"}

Adjacent(a, b) == Manhattan(a, b) = 1

Joined(gr, m, n) ==
    \E i \in 1..Len(gr.edges) :
        \/ gr.edges[i].a = m /\ gr.edges[i].b = n
        \/ gr.edges[i].a = n /\ gr.edges[i].b = m

Degree(gr, n) ==
    Cardinality({i \in 1..Len(gr.edges) : gr.edges[i].a = n \/ gr.edges[i].b = n})

(* The graph of the width x height rectangle: a node per cell, and exactly
   one edge of weight 1 per pair of cells one unit apart. *)
IsGridGraph(gr, width, height) ==
    /\ NodeCount(gr) = width * height
    /\ \A x \in 0..(width - 1), y \in 0..(height - 1) :
          Cardinality({n \in 0..(NodeCount(gr) - 1) : Weight(gr, n) = Coordinate2D(x, y)}) = 1
    /\ \A i \in 1..Len(gr.edges) :
          /\ gr.edges[i].a /= gr.edges[i].b
          /\ gr.edges[i].w = 1
          /\ Adjacent(Weight(gr, gr.edges[i].a), Weight(gr, gr.edges[i].b))
    /\ \A i, j \in 1..Len(gr.edges) :
          i /= j => {gr.edges[i].a, gr.edges[i].b} /= {gr.edges[j].a, gr.edges[j].b}
    /\ \A m, n \in 0..(NodeCount(gr) - 1) :
          Adjacent(Weight(gr, m), Weight(gr, n)) => Joined(gr, m, n)

(* C1: for W, H >= 1 and start and goal on the grid, make_graph and
   find_path run to the end and the result is present with a cost equal to
   the Manhattan distance from start to goal. *)
C1_CostIsManhattan ==
    (/\ config.width >= 1 /\ config.height >= 1
     /\ InBounds(config.start, config) /\ InBounds(config.goal, config))
    => /\ pc \notin {"panic_make_graph", "panic_distance"}
       /\ FindPathReturned =>
            /\ IsSome(path)
            /\ Unwrap(path).cost = Manhattan(config.start, config.goal)

(* The nodes of p form a simple path of the graph from start to goal whose
   length is its cost plus one. *)
ValidSimplePath(gr, p, start, goal) ==
    LET ns == p.nodes
    IN  /\ Len(ns) = p.cost + 1
        /\ Weight(gr, ns[1]) = start
        /\ Weight(gr, ns[Len(ns)]) = goal
        /\ \A i, j \in 1..Len(ns) : i /= j => ns[i] /= ns[j]
        /\ \A i \in 1..(Len(ns) - 1) :
              /\ Joined(gr, ns[i], ns[i + 1])
              /\ Adjacent(Weight(gr, ns[i]), Weight(gr, ns[i + 1]))

(* C2: a present result of find_path is a valid simple path from the start
   node to the goal node, consecutive nodes joined by an edge and one unit
   apart, of length cost + 1. *)
C2_PathIsValid ==
    (FindPathReturned /\ IsSome(path))
    => ValidSimplePath(g, Unwrap(path), config.start, config.goal)

(* A search that returned a path of at least four nodes. *)
C2_Witness ==
    /\ FindPathReturned
    /\ IsSome(path)
    /\ Len(Unwrap(path).nodes) >= 4

(* C3: for W, H >= 0 make_graph returns the grid graph of the rectangle:
   W*H nodes, one per cell, and exactly the 4-neighbour edges, each once,
   with weight 1. *)
C3_GraphIsGrid ==
    (config.width >= 0 /\ config.height >= 0)
    => /\ pc /= "panic_make_graph"
       /\ Built => IsGridGraph(g, config.width, config.height)

NoDuplicatePair(edges) ==
    \A i, j \in 1..Len(edges) :
        i /= j => /\ edges[i] /= edges[j]
                  /\ edges[i] /= <<edges[j][2], edges[j][1]>>

(* C4: for W, H >= 1 the edge list graph_to_json produces holds no
   undirected pair twice and has 2*W*H - W - H entries. *)
C4_EdgeListIsExact ==
    (IsSome(json) /\ config.width >= 1 /\ config.height >= 1)
    => /\ NoDuplicatePair(Unwrap(json).edges)
       /\ Len(Unwrap(json).edges)
            = 2 * config.width * config.height - config.width - config.height

(* The flattened view of a grid with a cycle in it. *)
C4_Witness ==
    /\ IsSome(json)
    /\ config.width >= 2 /\ config.height >= 2
    /\ Len(Unwrap(json).edges) >= 4

(* C5: on a grid without cells (W = 0 or H = 0, neither negative) nothing
   panics, the graph is empty, the search result is absent and the
   flatteners return empty lists. *)
C5_EmptyGridCompletes ==
    (/\ config.width >= 0 /\ config.height >= 0
     /\ (config.width = 0 \/ config.height = 0))
    => /\ ~Panicked
       /\ Built => g = EmptyGraph
       /\ FindPathReturned => path = None
       /\ IsSome(json) => Unwrap(json).nodes = <<>> /\ Unwrap(json).edges = <<>>
       /\ IsSome(svg) => Unwrap(svg) = <<>>

(* C6: on a built grid with W, H >= 1, a start off the grid, or a goal off
   the grid with the start on it, makes find_path return an absent result
   without a panic. *)
C6_OffGridIsAbsent ==
    (/\ Built /\ config.width >= 1 /\ config.height >= 1
     /\ \/ ~InBounds(config.start, config)
        \/ InBounds(config.start, config) /\ ~InBounds(config.goal, config))
    => /\ pc /= "panic_distance"
       /\ FindPathReturned => path = None

IsCorner(c, cfg) ==
    /\ c.x \in {0, cfg.width - 1}
    /\ c.y \in {0, cfg.height - 1}

IsInterior(c, cfg) ==
    /\ 0 < c.x /\ c.x < cfg.width - 1
    /\ 0 < c.y /\ c.y < cfg.height - 1

GridDegree(c, cfg) == IF IsInterior(c, cfg) THEN 4 ELSE IF IsCorner(c, cfg) THEN 2 ELSE 3

DegreesAreGrid ==
    \A n \in 0..(NodeCount(g) - 1) : Degree(g, n) = GridDegree(Weight(g, n), config)

(* C7 as stated: for W, H >= 1 every interior node of the built graph has
   degree 4, every corner node degree 2 and every other boundary node
   degree 3. *)
C7_DegreesFromOne ==
    (Built /\ config.width >= 1 /\ config.height >= 1) => DegreesAreGrid

(* C7, amended: the same degrees for W, H >= 2; a grid one cell wide or
   high has corners of degree 1 (0 when it is a single cell) and other
   nodes of degree 2. *)
C7_DegreesFromTwo ==
    (Built /\ config.width >= 2 /\ config.height >= 2) => DegreesAreGrid

(* A built grid with an interior node, a corner and another boundary node. *)
C7_Witness ==
    /\ Built
    /\ config.width >= 3 /\ config.height >= 3
    /\ \E n \in 0..(NodeCount(g) - 1) :
          IsInterior(Weight(g, n), config) /\ Degree(g, n) = 4

(* C8: with a dimension that is zero or negative make_graph does not panic
   and returns the empty graph. *)
C8_NonPositiveIsEmpty ==
    (config.width <= 0 \/ config.height <= 0)
    => /\ pc /= "panic_make_graph"
       /\ Built => g = EmptyGraph

(* The number of nodes bfs.next has returned so far. *)
BfsReturned == Cardinality(bfs.discovered) - Len(bfs.stack)

(* C9: the node list of graph_to_json is in the order of the breadth-first
   traversal from the first node: the node the traversal returns next is
   the next entry of the list. *)
C9_NodesInBfsOrder ==
    (/\ pc = "graph_to_json_loop" /\ bfs.stack /= <<>>
     /\ config.width >= 1 /\ config.height >= 1)
    => acc.nodes[BfsReturned + 1] = Weight(g, Head(bfs.stack))

(* C10: on a built grid and for a goal on it, the estimate find_path hands
   to astar never exceeds the Manhattan distance from the node to the goal
   (so it is 0 at the goal node). *)
C10_EstimateIsAdmissible ==
    (Built /\ InBounds(config.goal, config))
    => \A n \in 0..(NodeCount(g) - 1) :
          EstimateCost(g, config.goal, n) <= Manhattan(Weight(g, n), config.goal)

====
